---- MODULE Spec2Model ----
(***************************************************************************)
(* Model of parse_logs (src/analyze.py): one pass over the lines of a      *)
(* benchmark log, a stack of open tasks, a list of closed tasks, and the   *)
(* final "slowest instance of the target task" selection.                  *)
(*                                                                         *)
(* Python strings are modelled as sequences of one-character strings, so   *)
(* that slicing, splitting and int() are computed as the code computes     *)
(* them.  Python's 0-based s[i] is the 1-based s[i+1] here.                *)
(***************************************************************************)
EXTENDS Integers, Sequences, FiniteSets, TLC

\* Longest log file explored (number of lines).
MaxLines == 4

(***************************************************************************)
(* str helpers                                                             *)
(***************************************************************************)
\* str.startswith(p)
startswith(s, p) ==
    Len(s) >= Len(p) /\ SubSeq(s, 1, Len(p)) = p

\* str.find(p) from 1-based position i; 0 when p does not occur
RECURSIVE find(_, _, _)
find(s, p, i) ==
    IF i + Len(p) - 1 > Len(s) THEN 0
    ELSE IF SubSeq(s, i, i + Len(p) - 1) = p THEN i
    ELSE find(s, p, i + 1)

\* p in s
contains(s, p) ==
    find(s, p, 1) # 0

\* s.split(sep): the pieces between successive occurrences of sep
RECURSIVE split(_, _)
split(s, sep) ==
    LET i == find(s, sep, 1)
    IN  IF i = 0 THEN <<s>>
        ELSE <<SubSeq(s, 1, i - 1)>> \o split(SubSeq(s, i + Len(sep), Len(s)), sep)

\* s[n:]
slice_from(s, n) ==
    SubSeq(s, n + 1, Len(s))

\* s[:-1]
slice_drop_last(s) ==
    SubSeq(s, 1, Len(s) - 1)

Whitespace ==
    {" ", "\n", "\t", "\r"}

RECURSIVE lstrip(_)
lstrip(s) ==
    IF s # <<>> /\ s[1] \in Whitespace THEN lstrip(Tail(s)) ELSE s

RECURSIVE rstrip(_)
rstrip(s) ==
    IF s # <<>> /\ s[Len(s)] \in Whitespace THEN rstrip(slice_drop_last(s)) ELSE s

\* length of the leading run of non-whitespace characters
RECURSIVE token_len(_)
token_len(s) ==
    IF s = <<>> \/ s[1] \in Whitespace THEN 0 ELSE 1 + token_len(Tail(s))

\* s.split() with no separator: the whitespace-delimited tokens
RECURSIVE split_ws(_)
split_ws(s) ==
    LET t == lstrip(s)
        n == token_len(t)
    IN  IF t = <<>> THEN <<>>
        ELSE <<SubSeq(t, 1, n)>> \o split_ws(SubSeq(t, n + 1, Len(t)))

DigitChars ==
    <<"0", "1", "2", "3", "4", "5", "6", "7", "8", "9">>

is_digit(c) ==
    \E d \in 1..10 : DigitChars[d] = c

digit_value(c) ==
    (CHOOSE d \in 1..10 : DigitChars[d] = c) - 1

\* the text int() converts: surrounding whitespace and an optional sign removed
int_body(s) ==
    LET t == rstrip(lstrip(s))
    IN  IF t # <<>> /\ t[1] \in {"+", "-"} THEN Tail(t) ELSE t

\* int(s) succeeds: decimal digits, single underscores only between digits
int_ok(s) ==
    LET b == int_body(s)
    IN  /\ b # <<>>
        /\ \A i \in 1..Len(b) :
              \/ is_digit(b[i])
              \/ /\ b[i] = "_"
                 /\ 1 < i /\ i < Len(b)
                 /\ is_digit(b[i - 1]) /\ is_digit(b[i + 1])

RECURSIVE digits_value(_)
digits_value(b) ==
    IF b = <<>> THEN 0
    ELSE IF b[Len(b)] = "_" THEN digits_value(slice_drop_last(b))
    ELSE 10 * digits_value(slice_drop_last(b)) + digit_value(b[Len(b)])

\* int(s), for s with int_ok(s)
int(s) ==
    LET t == rstrip(lstrip(s))
        v == digits_value(int_body(s))
    IN  IF t # <<>> /\ t[1] = "-" THEN 0 - v ELSE v

(***************************************************************************)
(* The log lines the model feeds to parse_logs.  Each is one line as the   *)
(* file iterator yields it, line terminator included.                      *)
(***************************************************************************)
\* "[T+1] Start committing to advice columns\n"
StartTargetLine ==
    <<"[", "T", "+", "1", "]", " ", "S", "t", "a", "r", "t", " ", "c", "o", "m", "m", "i", "t", "t", "i", "n", "g", " ", "t", "o", " ", "a", "d", "v", "i", "c", "e", " ", "c", "o", "l", "u", "m", "n", "s", "\n">>
\* "[T+1] Start a\n"
StartALine ==
    <<"[", "T", "+", "1", "]", " ", "S", "t", "a", "r", "t", " ", "a", "\n">>
\* "[T+3] Done a\n"
DoneALine ==
    <<"[", "T", "+", "3", "]", " ", "D", "o", "n", "e", " ", "a", "\n">>
\* "[T+0] Done\n"
DoneEarlyLine ==
    <<"[", "T", "+", "0", "]", " ", "D", "o", "n", "e", "\n">>
\* "[T20] Done x\n"
DoneT20Line ==
    <<"[", "T", "2", "0", "]", " ", "D", "o", "n", "e", " ", "x", "\n">>
\* "[T5] Start x\n"
StartT5Line ==
    <<"[", "T", "5", "]", " ", "S", "t", "a", "r", "t", " ", "x", "\n">>
\* "[Txyz] Start a\n"
BadTimeLine ==
    <<"[", "T", "x", "y", "z", "]", " ", "S", "t", "a", "r", "t", " ", "a", "\n">>
\* "[T+1] Start Done\n"
StartDoneLine ==
    <<"[", "T", "+", "1", "]", " ", "S", "t", "a", "r", "t", " ", "D", "o", "n", "e", "\n">>
\* "[T+1] Started\n"
StartedLine ==
    <<"[", "T", "+", "1", "]", " ", "S", "t", "a", "r", "t", "e", "d", "\n">>
\* "[T+1] tick\n"
TickLine ==
    <<"[", "T", "+", "1", "]", " ", "t", "i", "c", "k", "\n">>
\* "msm 10\n"
Msm10Line ==
    <<"m", "s", "m", " ", "1", "0", "\n">>
\* "fft 20\n"
Fft20Line ==
    <<"f", "f", "t", " ", "2", "0", "\n">>
\* "msmx 10\n"
MsmxLine ==
    <<"m", "s", "m", "x", " ", "1", "0", "\n">>
\* "msm\n"
MsmAloneLine ==
    <<"m", "s", "m", "\n">>
\* "hello\n"
HelloLine ==
    <<"h", "e", "l", "l", "o", "\n">>
\* "[T+1] Start a"
StartNoEolLine ==
    <<"[", "T", "+", "1", "]", " ", "S", "t", "a", "r", "t", " ", "a">>
\* "[T+1] Start Start b\n"
StartStartLine ==
    <<"[", "T", "+", "1", "]", " ", "S", "t", "a", "r", "t", " ", "S", "t", "a", "r", "t", " ", "b", "\n">>
\* "[Tx3] Done a\n"
DoneTx3Line ==
    <<"[", "T", "x", "3", "]", " ", "D", "o", "n", "e", " ", "a", "\n">>
Lines ==
    {DoneTx3Line,
     StartTargetLine,
     StartALine,
     DoneALine,
     DoneEarlyLine,
     DoneT20Line,
     StartT5Line,
     BadTimeLine,
     StartDoneLine,
     StartedLine,
     TickLine,
     Msm10Line,
     Fft20Line,
     MsmxLine,
     MsmAloneLine,
     HelloLine,
     StartNoEolLine,
     StartStartLine}
TARGET ==
    <<"c", "o", "m", "m", "i", "t", "t", "i", "n", "g", " ", "t", "o", " ", "a", "d", "v", "i", "c", "e", " ", "c", "o", "l", "u", "m", "n", "s">>

\* the literals the code compares lines against
TimeMarker ==
    <<"[", "T">>
CloseBracket ==
    <<"]">>
StartWord ==
    <<"S", "t", "a", "r", "t">>
StartSep ==
    <<"S", "t", "a", "r", "t", " ">>
DoneWord ==
    <<"D", "o", "n", "e">>
MsmKey ==
    <<"m", "s", "m">>
FftKey ==
    <<"f", "f", "t">>

(***************************************************************************)
(* State                                                                   *)
(***************************************************************************)
VARIABLES
    log,            \* the lines read so far, in file order; log[Len(log)] is `line`
    active_tasks,   \* stack of open tasks, innermost last
    all_tasks,      \* closed tasks, in completion order until sorted
    pc,             \* "reading" | "query" | "done" | "aborted"
    exception,      \* the exception that ended the run, "none" otherwise
    printed,        \* what pprint wrote: <<>> or <<task>>
    file_open       \* the handle of the `with open(...)` block

vars ==
    <<log, active_tasks, all_tasks, pc, exception, printed, file_open>>

\* the empty dict of a counter mapping
EmptyDict ==
    <<>>

\* The dict appended on a Start line.  `id` is the identity of the dict object
\* (the number of the line that created it) and `done_id` the number of the
\* line that closed it (0 while open); the code never reads either.
new_task(task_name, current_time, lineno) ==
    [task_name |-> task_name, start_time |-> current_time, end_time |-> -1,
     duration |-> -1, msm |-> EmptyDict, fft |-> EmptyDict,
     id |-> lineno, done_id |-> 0]

\* line.split("]")[0][3:]
time_text(line) ==
    slice_from(split(line, CloseBracket)[1], 3)

\* line.split("Start ")[1][:-1], for a line where split yields two pieces
name_text(line) ==
    slice_drop_last(split(line, StartSep)[2])

\* count_up that sets the entry to 1 every time
count_up_always_one(d, size) ==
    [k \in (DOMAIN d) \cup {size} |-> IF k = size THEN 1 ELSE d[k]]

\* d[size] += 1 if size in d else d[size] = 1
count_up(d, size) ==
    [k \in (DOMAIN d) \cup {size} |->
        IF k = size THEN (IF size \in DOMAIN d THEN d[size] + 1 ELSE 1)
        ELSE d[k]]

\* the branch of the timed-line test a line takes: "start" and "done" for the
\* two events (Start is tested first), "timed" for a timed line with neither
\* word, "other" for a line without the time marker
line_kind(line) ==
    IF ~startswith(line, TimeMarker) THEN "other"
    ELSE IF contains(line, StartWord) THEN "start"
    ELSE IF contains(line, DoneWord) THEN "done"
    ELSE "timed"

\* line_kind of every line of the catalogue, tabulated
LineKind ==
    [line \in Lines |-> line_kind(line)]

\* line.split() of every line of the catalogue, tabulated
LineTokens ==
    [line \in Lines |-> split_ws(line)]

is_op_line(line) ==
    startswith(line, MsmKey) \/ startswith(line, FftKey)

Init ==
    /\ log = <<>>
    /\ active_tasks = <<>>
    /\ all_tasks = <<>>
    /\ pc = "reading"
    /\ exception = "none"
    /\ printed = <<>>
    /\ file_open = TRUE

\* `for line in f` yields another line: only the last line of a file can lack
\* its terminator
next_line(line) ==
    /\ pc = "reading"
    /\ Len(log) < MaxLines
    /\ IF log = <<>> THEN TRUE ELSE log[Len(log)][Len(log[Len(log)])] = "\n"
    /\ log' = Append(log, line)

\* raise without the with block: the exception ends the run, the file stays open
raise_without_with(e) ==
    /\ pc' = "aborted"
    /\ exception' = e
    /\ UNCHANGED <<active_tasks, all_tasks, printed, file_open>>

\* an exception leaves the with block (closing the file) and ends the run
raise(e) ==
    /\ pc' = "aborted"
    /\ exception' = e
    /\ file_open' = FALSE
    /\ UNCHANGED <<active_tasks, all_tasks, printed>>

\* int(...) raises ValueError
TimeError(line) ==
    /\ next_line(line)
    /\ startswith(line, TimeMarker)
    /\ ~int_ok(time_text(line))
    /\ raise("ValueError")

\* "Start" in line: push a new open task
StartTask(line) ==
    /\ next_line(line)
    /\ startswith(line, TimeMarker)
    /\ int_ok(time_text(line))
    /\ contains(line, StartWord)
    /\ Len(split(line, StartSep)) >= 2
    /\ active_tasks' = Append(active_tasks,
            new_task(name_text(line), int(time_text(line)), Len(log) + 1))
    /\ UNCHANGED <<all_tasks, pc, exception, printed, file_open>>

\* "Start" in line, but no "Start " to split on: [1] raises IndexError
StartNameError(line) ==
    /\ next_line(line)
    /\ startswith(line, TimeMarker)
    /\ int_ok(time_text(line))
    /\ contains(line, StartWord)
    /\ Len(split(line, StartSep)) < 2
    /\ raise("IndexError")

\* DoneTask that appends the closed task but leaves it on the stack
DoneTask_no_pop(line) ==
    /\ next_line(line)
    /\ startswith(line, TimeMarker)
    /\ int_ok(time_text(line))
    /\ ~contains(line, StartWord)
    /\ contains(line, DoneWord)
    /\ active_tasks # <<>>
    /\ LET current_time == int(time_text(line))
           top == active_tasks[Len(active_tasks)]
           closed == [top EXCEPT !.end_time = current_time,
                                 !.duration = current_time - top.start_time,
                                 !.done_id = Len(log) + 1]
       IN  all_tasks' = Append(all_tasks, closed)
    /\ UNCHANGED <<active_tasks, pc, exception, printed, file_open>>

\* DoneTask that pops the innermost task and forgets to append it
DoneTask_not_appended(line) ==
    /\ next_line(line)
    /\ startswith(line, TimeMarker)
    /\ int_ok(time_text(line))
    /\ ~contains(line, StartWord)
    /\ contains(line, DoneWord)
    /\ active_tasks # <<>>
    /\ active_tasks' = slice_drop_last(active_tasks)
    /\ UNCHANGED <<all_tasks, pc, exception, printed, file_open>>

\* DoneTask that puts the closed task in front of the closed tasks
DoneTask_prepends(line) ==
    /\ next_line(line)
    /\ startswith(line, TimeMarker)
    /\ int_ok(time_text(line))
    /\ ~contains(line, StartWord)
    /\ contains(line, DoneWord)
    /\ active_tasks # <<>>
    /\ LET current_time == int(time_text(line))
           top == active_tasks[Len(active_tasks)]
           closed == [top EXCEPT !.end_time = current_time,
                                 !.duration = current_time - top.start_time,
                                 !.done_id = Len(log) + 1]
       IN  /\ all_tasks' = <<closed>> \o all_tasks
           /\ active_tasks' = slice_drop_last(active_tasks)
    /\ UNCHANGED <<pc, exception, printed, file_open>>

\* DoneTask that closes the outermost open task (pop(0)) instead of the innermost
DoneTask_pop_first(line) ==
    /\ next_line(line)
    /\ startswith(line, TimeMarker)
    /\ int_ok(time_text(line))
    /\ ~contains(line, StartWord)
    /\ contains(line, DoneWord)
    /\ active_tasks # <<>>
    /\ LET current_time == int(time_text(line))
           top == active_tasks[1]
           closed == [top EXCEPT !.end_time = current_time,
                                 !.duration = current_time - top.start_time,
                                 !.done_id = Len(log) + 1]
       IN  /\ all_tasks' = Append(all_tasks, closed)
           /\ active_tasks' = Tail(active_tasks)
    /\ UNCHANGED <<pc, exception, printed, file_open>>

\* "Done" in line: close the innermost open task
DoneTask(line) ==
    /\ next_line(line)
    /\ startswith(line, TimeMarker)
    /\ int_ok(time_text(line))
    /\ ~contains(line, StartWord)
    /\ contains(line, DoneWord)
    /\ active_tasks # <<>>
    /\ LET current_time == int(time_text(line))
           top == active_tasks[Len(active_tasks)]
           closed == [top EXCEPT !.end_time = current_time,
                                 !.duration = current_time - top.start_time,
                                 !.done_id = Len(log) + 1]
       IN  /\ all_tasks' = Append(all_tasks, closed)
           /\ active_tasks' = slice_drop_last(active_tasks)
    /\ UNCHANGED <<pc, exception, printed, file_open>>

\* DoneEmptyError that swallows the unmatched completion line
DoneEmptyError_ignored(line) ==
    /\ next_line(line)
    /\ startswith(line, TimeMarker)
    /\ int_ok(time_text(line))
    /\ ~contains(line, StartWord)
    /\ contains(line, DoneWord)
    /\ active_tasks = <<>>
    /\ UNCHANGED <<active_tasks, all_tasks, pc, exception, printed, file_open>>

\* "Done" in line with nothing open: active_tasks[-1] raises IndexError
DoneEmptyError(line) ==
    /\ next_line(line)
    /\ startswith(line, TimeMarker)
    /\ int_ok(time_text(line))
    /\ ~contains(line, StartWord)
    /\ contains(line, DoneWord)
    /\ active_tasks = <<>>
    /\ raise("IndexError")

\* a timed line that is neither a Start nor a Done
TimedOther(line) ==
    /\ next_line(line)
    /\ startswith(line, TimeMarker)
    /\ int_ok(time_text(line))
    /\ ~contains(line, StartWord)
    /\ ~contains(line, DoneWord)
    /\ UNCHANGED <<active_tasks, all_tasks, pc, exception, printed, file_open>>

\* operation, size = line.split() with other than two tokens: ValueError
UnpackError(line) ==
    /\ next_line(line)
    /\ ~startswith(line, TimeMarker)
    /\ is_op_line(line)
    /\ Len(split_ws(line)) # 2
    /\ raise("ValueError")

\* CountOp whose counter dicts are shared with the task closed last, so the
\* count shows up there as well
CountOp_shared_dict(line) ==
    /\ next_line(line)
    /\ ~startswith(line, TimeMarker)
    /\ is_op_line(line)
    /\ Len(split_ws(line)) = 2
    /\ active_tasks # <<>>
    /\ LET operation == split_ws(line)[1]
           size == split_ws(line)[2]
           n == Len(active_tasks)
           m == Len(all_tasks)
       IN  /\ operation \in {MsmKey, FftKey}
           /\ active_tasks' =
                IF operation = MsmKey
                THEN [active_tasks EXCEPT ![n].msm = count_up(@, size)]
                ELSE [active_tasks EXCEPT ![n].fft = count_up(@, size)]
           /\ all_tasks' =
                IF m = 0 THEN all_tasks
                ELSE IF operation = MsmKey
                THEN [all_tasks EXCEPT ![m].msm = count_up(@, size)]
                ELSE [all_tasks EXCEPT ![m].fft = count_up(@, size)]
    /\ UNCHANGED <<pc, exception, printed, file_open>>

\* CountOp that counts on the outermost open task (active_tasks[0])
CountOp_outermost(line) ==
    /\ next_line(line)
    /\ ~startswith(line, TimeMarker)
    /\ is_op_line(line)
    /\ Len(split_ws(line)) = 2
    /\ active_tasks # <<>>
    /\ LET operation == split_ws(line)[1]
           size == split_ws(line)[2]
       IN  /\ operation \in {MsmKey, FftKey}
           /\ active_tasks' =
                IF operation = MsmKey
                THEN [active_tasks EXCEPT ![1].msm = count_up(@, size)]
                ELSE [active_tasks EXCEPT ![1].fft = count_up(@, size)]
    /\ UNCHANGED <<all_tasks, pc, exception, printed, file_open>>

\* an msm / fft line with a task open: count it on the innermost task
CountOp(line) ==
    /\ next_line(line)
    /\ ~startswith(line, TimeMarker)
    /\ is_op_line(line)
    /\ Len(split_ws(line)) = 2
    /\ active_tasks # <<>>
    /\ LET operation == split_ws(line)[1]
           size == split_ws(line)[2]
           n == Len(active_tasks)
       IN  /\ operation \in {MsmKey, FftKey}
           /\ active_tasks' =
                IF operation = MsmKey
                THEN [active_tasks EXCEPT ![n].msm = count_up(@, size)]
                ELSE [active_tasks EXCEPT ![n].fft = count_up(@, size)]
    /\ UNCHANGED <<all_tasks, pc, exception, printed, file_open>>

\* active_tasks[-1][operation] for a first token that is no key of the task
OpKeyError(line) ==
    /\ next_line(line)
    /\ ~startswith(line, TimeMarker)
    /\ is_op_line(line)
    /\ Len(split_ws(line)) = 2
    /\ active_tasks # <<>>
    /\ split_ws(line)[1] \notin {MsmKey, FftKey}
    /\ raise("KeyError")

\* DropOp without the `if active_tasks:` test: active_tasks[-1] raises IndexError
DropOp_unguarded(line) ==
    /\ next_line(line)
    /\ ~startswith(line, TimeMarker)
    /\ is_op_line(line)
    /\ Len(split_ws(line)) = 2
    /\ active_tasks = <<>>
    /\ raise("IndexError")

\* an msm / fft line with nothing open
DropOp(line) ==
    /\ next_line(line)
    /\ ~startswith(line, TimeMarker)
    /\ is_op_line(line)
    /\ Len(split_ws(line)) = 2
    /\ active_tasks = <<>>
    /\ UNCHANGED <<active_tasks, all_tasks, pc, exception, printed, file_open>>

\* any other line
IgnoreLine(line) ==
    /\ next_line(line)
    /\ ~startswith(line, TimeMarker)
    /\ ~is_op_line(line)
    /\ UNCHANGED <<active_tasks, all_tasks, pc, exception, printed, file_open>>

\* the iterator is exhausted: the with block ends
EndOfInput ==
    /\ pc = "reading"
    /\ pc' = "query"
    /\ file_open' = FALSE
    /\ UNCHANGED <<log, active_tasks, all_tasks, exception, printed>>

\* sort_key without the sign change: the sort becomes ascending in duration
sort_key_ascending(task) ==
    task.duration

\* key=lambda task: task["duration"] * -1
sort_key(task) ==
    task.duration * (-1)

\* insert_sorted of an unstable sort: task goes in front of the equal keys
insert_sorted_unstable(task, s) ==
    LET k == Cardinality({i \in 1..Len(s) : sort_key(s[i]) < sort_key(task)})
    IN  SubSeq(s, 1, k) \o <<task>> \o SubSeq(s, k + 1, Len(s))

\* put task behind every element of the sorted s whose key is not larger
insert_sorted(task, s) ==
    LET k == Cardinality({i \in 1..Len(s) : sort_key(s[i]) <= sort_key(task)})
    IN  SubSeq(s, 1, k) \o <<task>> \o SubSeq(s, k + 1, Len(s))

\* an unstable sorted: equal keys come out in reverse order
RECURSIVE sorted_reversing_ties(_)
sorted_reversing_ties(s) ==
    IF s = <<>> THEN <<>>
    ELSE insert_sorted(s[1], sorted_reversing_ties(Tail(s)))

\* sorted(s, key=sort_key): stable, ascending in the key
RECURSIVE sorted(_)
sorted(s) ==
    IF s = <<>> THEN <<>>
    ELSE insert_sorted(s[Len(s)], sorted(slice_drop_last(s)))

\* first_match without the name test: the first task of s, if any
first_match_any_name(s) ==
    IF s = <<>> THEN <<>> ELSE <<s[1]>>

\* the for loop with break: the first task of s named TARGET, if any
first_match(s) ==
    LET hits == {i \in 1..Len(s) : s[i].task_name = TARGET}
    IN  IF hits = {} THEN <<>>
        ELSE <<s[CHOOSE i \in hits : \A j \in hits : i <= j]>>

\* sort the closed tasks and print the slowest instance of TARGET
Slowest ==
    /\ pc = "query"
    /\ all_tasks' = sorted(all_tasks)
    /\ printed' = first_match(sorted(all_tasks))
    /\ pc' = "done"
    /\ UNCHANGED <<log, active_tasks, exception, file_open>>

Next ==
    \/ \E line \in Lines :
          \/ TimeError(line)
          \/ StartTask(line)
          \/ StartNameError(line)
          \/ DoneTask(line)
          \/ DoneEmptyError(line)
          \/ TimedOther(line)
          \/ UnpackError(line)
          \/ CountOp(line)
          \/ OpKeyError(line)
          \/ DropOp(line)
          \/ IgnoreLine(line)
    \/ EndOfInput
    \/ Slowest

Spec ==
    Init /\ [][Next]_vars

(***************************************************************************)
(* Properties                                                              *)
(***************************************************************************)
TypeOK ==
    /\ pc \in {"reading", "query", "done", "aborted"}
    /\ Len(log) <= MaxLines
    /\ Len(printed) <= 1

\* C1 (P1, balanced nesting): when the whole of a well-nested log has been
\* read -- reading the lines in order, no completion line comes without an
\* open start line, and there are as many completion lines as start lines --
\* the number of start lines, the number of completion lines and the number
\* of closed tasks are equal and no task is left open.  A start line is a
\* timed line with "Start" in it, a completion line a timed line with "Done"
\* and no "Start" in it.
C1_BalancedNesting ==
    LET starts(k) == {i \in 1..k : LineKind[log[i]] = "start"}
        dones(k) == {i \in 1..k : LineKind[log[i]] = "done"}
        well_nested ==
            /\ \A k \in 1..Len(log) : Cardinality(dones(k)) <= Cardinality(starts(k))
            /\ Cardinality(dones(Len(log))) = Cardinality(starts(Len(log)))
    IN  (pc \in {"query", "done"} /\ well_nested) =>
            /\ Cardinality(starts(Len(log))) = Len(all_tasks)
            /\ Cardinality(dones(Len(log))) = Len(all_tasks)
            /\ active_tasks = <<>>

\* a nested pair of tasks, both closed, at the end of a well-nested log
C1_Witness ==
    /\ pc = "done"
    /\ Len(log) = 4
    /\ Len(all_tasks) = 2
    /\ active_tasks = <<>>
    /\ \E i, j \in 1..2 : /\ all_tasks[i].id = 1 /\ all_tasks[i].done_id = 4
                          /\ all_tasks[j].id = 2 /\ all_tasks[j].done_id = 3

\* C2 (LIFO closing): a step that processes a completion line (a timed line
\* with "Done" and no "Start" in it) while a task is open appends to the
\* closed tasks exactly the task that was on top of the stack -- same
\* identity, name, start time and counters -- and leaves the stack below it
\* as it was, in the same order; the tasks closed before keep their places.
C2_LifoClosing ==
    [][LET line == log'[Len(log')]
           n == Len(active_tasks)
       IN  (/\ Len(log') = Len(log) + 1
            /\ startswith(line, TimeMarker)
            /\ contains(line, DoneWord)
            /\ ~contains(line, StartWord)
            /\ active_tasks # <<>>
            /\ pc' = "reading")
           => /\ Len(all_tasks') = Len(all_tasks) + 1
              /\ SubSeq(all_tasks', 1, Len(all_tasks)) = all_tasks
              /\ all_tasks'[Len(all_tasks')].id = active_tasks[n].id
              /\ all_tasks'[Len(all_tasks')].task_name = active_tasks[n].task_name
              /\ all_tasks'[Len(all_tasks')].start_time = active_tasks[n].start_time
              /\ all_tasks'[Len(all_tasks')].msm = active_tasks[n].msm
              /\ all_tasks'[Len(all_tasks')].fft = active_tasks[n].fft
              /\ active_tasks' = SubSeq(active_tasks, 1, n - 1)]_vars

\* the inner of two nested tasks has been closed, the outer is still open
C2_Witness ==
    /\ Len(log) = 3
    /\ Len(active_tasks) = 1
    /\ Len(all_tasks) = 1
    /\ active_tasks[1].id = 1
    /\ all_tasks[1].id = 2
    /\ all_tasks[1].done_id = 3

\* C4 (P3, counter attachment): a step that processes a line beginning with
\* msm or fft while a task is open leaves every closed task, every open
\* task below the top of the stack and every field of the top task other
\* than the counter mapping of the line's kind unchanged; in that mapping
\* only the entry of the line's size label changes, and it goes up by one
\* (to 1 when it was absent).  So with the stack [A, B] only B's counters
\* change, and once B is closed the counts go to A.
C4_CounterAttachment ==
    [][LET line == log'[Len(log')]
           n == Len(active_tasks)
           toks == split_ws(line)
           bumped(old, new, size) ==
               /\ DOMAIN new = (DOMAIN old) \cup {size}
               /\ new[size] = IF size \in DOMAIN old THEN old[size] + 1 ELSE 1
               /\ \A k \in (DOMAIN old) \ {size} : new[k] = old[k]
       IN  (/\ Len(log') = Len(log) + 1
            /\ startswith(line, MsmKey) \/ startswith(line, FftKey)
            /\ active_tasks # <<>>)
           => /\ all_tasks' = all_tasks
              /\ Len(active_tasks') = n
              /\ \A i \in 1..(n - 1) : active_tasks'[i] = active_tasks[i]
              /\ active_tasks'[n].task_name = active_tasks[n].task_name
              /\ active_tasks'[n].start_time = active_tasks[n].start_time
              /\ active_tasks'[n].end_time = active_tasks[n].end_time
              /\ active_tasks'[n].duration = active_tasks[n].duration
              /\ active_tasks'[n].id = active_tasks[n].id
              /\ IF pc' = "reading" /\ toks[1] = MsmKey
                 THEN /\ active_tasks'[n].fft = active_tasks[n].fft
                      /\ bumped(active_tasks[n].msm, active_tasks'[n].msm, toks[2])
                 ELSE IF pc' = "reading" /\ toks[1] = FftKey
                 THEN /\ active_tasks'[n].msm = active_tasks[n].msm
                      /\ bumped(active_tasks[n].fft, active_tasks'[n].fft, toks[2])
                 ELSE active_tasks'[n] = active_tasks[n]]_vars

\* stack [A, B]: the count went to B, A has none
C4_Witness ==
    /\ Len(log) = 3
    /\ Len(active_tasks) = 2
    /\ DOMAIN active_tasks[2].msm # {}
    /\ DOMAIN active_tasks[1].msm = {}
    /\ DOMAIN active_tasks[1].fft = {}
    /\ pc = "reading"

\* C5 (maximum-duration selection): the query step reports a task whenever a
\* closed task has the queried name, and the task it reports is one of the
\* closed tasks, has exactly the queried name, has a duration at least that
\* of every closed task of that name, and is none of the tasks still open.
C5_MaxDurationSelection ==
    [][(pc = "query" /\ pc' = "done") =>
          LET named == {i \in 1..Len(all_tasks) : all_tasks[i].task_name = TARGET}
          IN  /\ named # {} => printed' # <<>>
              /\ printed' # <<>> =>
                    /\ printed'[1].task_name = TARGET
                    /\ \E i \in named : all_tasks[i] = printed'[1]
                    /\ \A i \in named : all_tasks[i].duration <= printed'[1].duration
                    /\ \A j \in 1..Len(active_tasks) :
                          active_tasks[j].id # printed'[1].id]_vars

\* the reported task was closed after a shorter task of the same name
C5_Witness ==
    /\ pc = "done"
    /\ printed # <<>>
    /\ \E i \in 1..Len(all_tasks) :
          /\ all_tasks[i].task_name = TARGET
          /\ all_tasks[i].duration < printed[1].duration
          /\ all_tasks[i].done_id < printed[1].done_id

\* C6 (P4, tie-break): among the closed tasks that have the queried name and
\* the duration of the reported task, the reported one is the one appended
\* first to the closed tasks, i.e. the one completed earliest in the log.
C6_TieBreakEarliest ==
    [][(pc = "query" /\ pc' = "done" /\ printed' # <<>>) =>
          LET ties == {i \in 1..Len(all_tasks) :
                          /\ all_tasks[i].task_name = TARGET
                          /\ all_tasks[i].duration = printed'[1].duration}
          IN  /\ \E i \in ties : /\ all_tasks[i] = printed'[1]
                                 /\ \A j \in ties : i <= j
              /\ \A j \in ties : printed'[1].done_id <= all_tasks[j].done_id]_vars

\* two closed tasks of the queried name tie on the reported duration
C6_Witness ==
    /\ pc = "done"
    /\ printed # <<>>
    /\ \E i \in 1..Len(all_tasks) :
          /\ all_tasks[i].task_name = TARGET
          /\ all_tasks[i].duration = printed[1].duration
          /\ all_tasks[i].id # printed[1].id

\* C7 (P5, not found): when no closed task has the queried name the query
\* step reports nothing and raises nothing, the stack of open tasks is
\* unchanged, and the closed tasks are the same tasks with the same fields.
C7_NotFoundStability ==
    [][(/\ pc = "query" /\ pc' = "done"
        /\ \A i \in 1..Len(all_tasks) : all_tasks[i].task_name # TARGET) =>
          /\ printed' = <<>>
          /\ exception' = "none"
          /\ active_tasks' = active_tasks
          /\ Len(all_tasks') = Len(all_tasks)
          /\ {all_tasks'[i] : i \in 1..Len(all_tasks')}
                = {all_tasks[i] : i \in 1..Len(all_tasks)}]_vars

\* nothing reported although tasks of other names were closed and sorted
C7_Witness ==
    /\ pc = "done"
    /\ printed = <<>>
    /\ exception = "none"
    /\ Len(all_tasks) = 2
    /\ all_tasks[1].done_id > all_tasks[2].done_id

\* C3 (P2, duration correctness): every closed task has as start_time the
\* timestamp of the line that created it and as end_time the timestamp of
\* the line that closed it -- the integer written between the T and the
\* first "]" of that line -- and its duration is end_time - start_time.
C3_DurationCorrectness ==
    LET between(line) == SubSeq(line, 3, find(line, CloseBracket, 1) - 1)
        is_stamp(line, t) == IF int_ok(between(line)) THEN t = int(between(line))
                             ELSE FALSE
    IN  \A i \in 1..Len(all_tasks) :
           /\ is_stamp(log[all_tasks[i].id], all_tasks[i].start_time)
           /\ is_stamp(log[all_tasks[i].done_id], all_tasks[i].end_time)
           /\ all_tasks[i].duration = all_tasks[i].end_time - all_tasks[i].start_time

\* C8 (timestamp extraction): the timestamp of a timed line is the integer
\* formed by all the characters between the T and the first "]": a task's
\* start_time is that integer of the line that created it, a closed task's
\* end_time that integer of the line that closed it, and a timed line whose
\* characters there do form an integer is not rejected by int().
C8_TimestampBetweenTAndBracket ==
    LET between(line) == SubSeq(line, 3, find(line, CloseBracket, 1) - 1)
        last == log[Len(log)]
        is_stamp(line, t) == IF int_ok(between(line)) THEN t = int(between(line))
                             ELSE FALSE
    IN  /\ \A i \in 1..Len(active_tasks) :
              is_stamp(log[active_tasks[i].id], active_tasks[i].start_time)
        /\ \A i \in 1..Len(all_tasks) :
              /\ is_stamp(log[all_tasks[i].id], all_tasks[i].start_time)
              /\ is_stamp(log[all_tasks[i].done_id], all_tasks[i].end_time)
        /\ (/\ pc = "aborted"
            /\ exception = "ValueError"
            /\ startswith(last, TimeMarker)) => ~int_ok(between(last))

\* C9 as claimed (completion recognition): a step that processes, with a task
\* open and without an exception, a timed line with "Done" anywhere in it --
\* whatever else the line contains -- closes the innermost open task and
\* creates no new task.
C9_DoneAlwaysCloses ==
    [][LET line == log'[Len(log')]
           n == Len(active_tasks)
       IN  (/\ Len(log') = Len(log) + 1
            /\ startswith(line, TimeMarker)
            /\ contains(line, DoneWord)
            /\ active_tasks # <<>>
            /\ pc' = "reading")
           => /\ Len(active_tasks') = n - 1
              /\ Len(all_tasks') = Len(all_tasks) + 1
              /\ all_tasks'[Len(all_tasks')].id = active_tasks[n].id]_vars

\* C9 as amended: a timed line with "Done" and without "Start" in it that is
\* processed without an exception finds a task open, pops the innermost one,
\* sets its end_time and duration, appends it to the closed tasks and
\* creates no task; a timed line with both "Done" and "Start" in it is
\* handled as a start line: it opens one new task and closes none.
C9_DoneWithoutStartCloses ==
    [][LET line == log'[Len(log')]
           n == Len(active_tasks)
           ids(s) == {s[i].id : i \in 1..Len(s)}
       IN  (/\ Len(log') = Len(log) + 1
            /\ startswith(line, TimeMarker)
            /\ contains(line, DoneWord)
            /\ pc' = "reading")
           => IF ~contains(line, StartWord)
              THEN /\ active_tasks # <<>>
                   /\ active_tasks' = SubSeq(active_tasks, 1, n - 1)
                   /\ Len(all_tasks') = Len(all_tasks) + 1
                   /\ all_tasks'[Len(all_tasks')].id = active_tasks[n].id
                   /\ all_tasks'[Len(all_tasks')].done_id = Len(log')
                   /\ all_tasks'[Len(all_tasks')].end_time = int(time_text(line))
                   /\ all_tasks'[Len(all_tasks')].duration =
                         int(time_text(line)) - active_tasks[n].start_time
                   /\ ids(active_tasks') \cup ids(all_tasks')
                         = ids(active_tasks) \cup ids(all_tasks)
              ELSE /\ all_tasks' = all_tasks
                   /\ Len(active_tasks') = n + 1
                   /\ SubSeq(active_tasks', 1, n) = active_tasks
                   /\ active_tasks'[n + 1].id = Len(log')]_vars

\* a task opened by a line holding both words ("Start Done") and then closed
\* by a line holding "Done" only
C9_Witness ==
    /\ Len(log) = 2
    /\ contains(log[1], StartWord) /\ contains(log[1], DoneWord)
    /\ contains(log[2], DoneWord) /\ ~contains(log[2], StartWord)
    /\ active_tasks = <<>>
    /\ Len(all_tasks) = 1
    /\ all_tasks[1].task_name = DoneWord
    /\ all_tasks[1].id = 1
    /\ all_tasks[1].done_id = 2

C11_OtherLinesIgnored ==
    [][LET line == log'[Len(log')]
           toks == split_ws(line)
       IN  (/\ Len(log') = Len(log) + 1
            /\ ~startswith(line, TimeMarker)
            /\ IF toks = <<>> THEN TRUE ELSE toks[1] \notin {MsmKey, FftKey})
           => /\ pc' = "reading"
              /\ exception' = "none"
              /\ active_tasks' = active_tasks
              /\ all_tasks' = all_tasks]_vars

\* C12 (malformed timestamp is fatal): a step that processes a timed line
\* whose characters between the T and the first "]" do not form an integer
\* aborts the run at that line, with nothing reported; and an aborted run
\* takes no further step.
C12_MalformedTimestampAborts ==
    [][LET line == log'[Len(log')]
           between == SubSeq(line, 3, find(line, CloseBracket, 1) - 1)
       IN  /\ pc # "aborted"
           /\ (/\ Len(log') = Len(log) + 1
               /\ startswith(line, TimeMarker)
               /\ ~int_ok(between))
              => /\ pc' = "aborted"
                 /\ printed' = <<>>
                 /\ active_tasks' = active_tasks
                 /\ all_tasks' = all_tasks]_vars

\* C13 (unmatched completion is fatal): a step that processes a completion
\* line (a timed line with "Done" and no "Start" in it) while no task is open
\* aborts the run with an exception -- it is never a step that goes on
\* reading -- appends nothing to the closed tasks and reports nothing; and an
\* aborted run takes no further step, so no query result follows.
C13_UnmatchedDoneFatal ==
    [][LET line == log'[Len(log')]
       IN  /\ pc # "aborted"
           /\ (/\ Len(log') = Len(log) + 1
               /\ startswith(line, TimeMarker)
               /\ contains(line, DoneWord)
               /\ ~contains(line, StartWord)
               /\ active_tasks = <<>>)
              => /\ pc' = "aborted"
                 /\ exception' \in {"IndexError", "ValueError"}
                 /\ int_ok(time_text(line)) => exception' = "IndexError"
                 /\ all_tasks' = all_tasks
                 /\ active_tasks' = <<>>
                 /\ printed' = <<>>]_vars

\* a completion line with nothing open ended the run after a task had been
\* closed: that task is still the only closed one and nothing was reported
C13_Witness ==
    /\ pc = "aborted"
    /\ exception = "IndexError"
    /\ Len(log) = 3
    /\ contains(log[3], DoneWord) /\ ~contains(log[3], StartWord)
    /\ active_tasks = <<>>
    /\ Len(all_tasks) = 1
    /\ all_tasks[1].task_name = TARGET
    /\ all_tasks[1].done_id = 2
    /\ printed = <<>>

\* C14 (duration defined iff closed): every open task has end_time and
\* duration at the unset value -1, and every closed task has a duration
\* other than -1.  Stated for the closed tasks whose lines carry the
\* timestamps the code stored, i.e. apart from the lines C8 is about.
C14_DurationDefinedIffClosed ==
    LET between(line) == SubSeq(line, 3, find(line, CloseBracket, 1) - 1)
        is_stamp(line, t) == IF int_ok(between(line)) THEN t = int(between(line))
                             ELSE FALSE
    IN  /\ \A i \in 1..Len(active_tasks) :
              /\ active_tasks[i].end_time = -1
              /\ active_tasks[i].duration = -1
        /\ \A i \in 1..Len(all_tasks) :
              (/\ is_stamp(log[all_tasks[i].id], all_tasks[i].start_time)
               /\ is_stamp(log[all_tasks[i].done_id], all_tasks[i].end_time))
              => all_tasks[i].duration # -1

\* C15 (task lifecycle): in every step, every closed task is still a closed
\* task afterwards with all its fields unchanged and is not on the stack
\* (never removed, never changed, never re-opened); a task leaves the stack
\* only in a step that processes a completion line, and then it is among the
\* closed tasks; a task becomes closed only by leaving the stack; and no task
\* is in the closed tasks twice.
C15_TaskLifecycle ==
    [][LET line == log'[Len(log')]
           ids(s) == {s[i].id : i \in 1..Len(s)}
           set(s) == {s[i] : i \in 1..Len(s)}
       IN  /\ set(all_tasks) \subseteq set(all_tasks')
           /\ ids(all_tasks) \cap ids(active_tasks') = {}
           /\ ids(all_tasks') \ ids(all_tasks) = ids(active_tasks) \ ids(active_tasks')
           /\ ids(active_tasks) # ids(active_tasks') /\ Len(active_tasks') < Len(active_tasks)
                => /\ Len(log') = Len(log) + 1
                   /\ startswith(line, TimeMarker)
                   /\ contains(line, DoneWord)
           /\ Cardinality(ids(all_tasks')) = Len(all_tasks')]_vars

\* a task was closed by line 2 and lines 3 and 4 -- a start line and an
\* operation-count line -- were processed after that
C15_Witness ==
    /\ Len(log) = 4
    /\ pc = "reading"
    /\ Len(all_tasks) = 1
    /\ all_tasks[1].done_id = 2
    /\ DOMAIN all_tasks[1].msm = {}
    /\ DOMAIN all_tasks[1].fft = {}
    /\ Len(active_tasks) = 1
    /\ active_tasks[1].id = 3
    /\ (DOMAIN active_tasks[1].msm) \cup (DOMAIN active_tasks[1].fft) # {}

\* C16 (task-name extraction): the name of every task is the whole rest of
\* the line that created it after the first "Start ", less the final line
\* terminator if the line has one.
C16_TaskNameIsRestOfLine ==
    LET rest(line) == SubSeq(line, find(line, StartSep, 1) + Len(StartSep), Len(line))
        expected(line) == IF rest(line) # <<>> /\ rest(line)[Len(rest(line))] = "\n"
                          THEN SubSeq(rest(line), 1, Len(rest(line)) - 1)
                          ELSE rest(line)
    IN  /\ \A i \in 1..Len(active_tasks) :
              active_tasks[i].task_name = expected(log[active_tasks[i].id])
        /\ \A i \in 1..Len(all_tasks) :
              all_tasks[i].task_name = expected(log[all_tasks[i].id])

\* C17 (input handle release): the file is open exactly while lines are being
\* read; once the run has left the loop -- at the end of input or by any
\* exception -- the handle is closed, so no final state has it open.
C17_HandleReleased ==
    file_open <=> pc = "reading"

\* a run ended by an exception raised while a line was processed, with tasks
\* open and closed, and the handle is closed
C17_Witness ==
    /\ pc = "aborted"
    /\ exception = "KeyError"
    /\ active_tasks # <<>>
    /\ all_tasks # <<>>
    /\ ~file_open

\* C18 (P6, idempotent query): once the query has run, running it again on
\* the closed tasks as the first run left them -- sorting the sorted list
\* and taking the first task of the queried name -- gives the same task (or
\* again nothing), and leaves the list as it is.
C18_IdempotentQuery ==
    pc = "done" =>
        /\ first_match(sorted(all_tasks)) = printed
        /\ sorted(all_tasks) = all_tasks

\* the query has run on two closed tasks of the queried name that tie on
\* duration; the reported one stands first
C18_Witness ==
    /\ pc = "done"
    /\ Len(all_tasks) = 2
    /\ all_tasks[1].task_name = TARGET
    /\ all_tasks[2].task_name = TARGET
    /\ all_tasks[1].duration = all_tasks[2].duration
    /\ printed = <<all_tasks[1]>>

\* C19 (counter values): for every task, open or closed, and each of msm and
\* fft, the mapping holds exactly the size labels of the lines of that kind
\* that were processed while the task was the innermost open one, each with
\* the number of those lines.  The task innermost at line k is the latest
\* created task that had not been closed by then.
C19_CounterValues ==
    LET tasks == {active_tasks[i] : i \in 1..Len(active_tasks)}
                    \cup {all_tasks[i] : i \in 1..Len(all_tasks)}
        processed == IF pc = "aborted" THEN Len(log) - 1 ELSE Len(log)
        toks(k) == LineTokens[log[k]]
        ops(kind) == {k \in 1..processed : Len(toks(k)) = 2 /\ toks(k)[1] = kind}
        open_at(t, k) == t.id < k /\ (t.done_id = 0 \/ t.done_id > k)
        innermost_at(t, k) ==
            /\ open_at(t, k)
            /\ \A u \in tasks : open_at(u, k) => u.id <= t.id
        events(t, kind) == {k \in ops(kind) : innermost_at(t, k)}
        counted(t, kind, d) ==
            /\ DOMAIN d = {toks(k)[2] : k \in events(t, kind)}
            /\ \A size \in DOMAIN d :
                  d[size] = Cardinality({k \in events(t, kind) : toks(k)[2] = size})
    IN  \A t \in tasks :
           /\ counted(t, MsmKey, t.msm)
           /\ counted(t, FftKey, t.fft)

\* a closed task that counted the same msm label twice and no fft
C19_Witness ==
    \E i \in 1..Len(all_tasks) :
       /\ \E size \in DOMAIN all_tasks[i].msm : all_tasks[i].msm[size] = 2
       /\ DOMAIN all_tasks[i].fft = {}

\* C20 (task conservation on any prefix): while lines are being processed
\* without an exception, the open tasks plus the closed tasks are as many as
\* the start lines read, the closed tasks as many as the completion lines
\* read, the closed tasks stand in the order of the lines that closed them,
\* and a task opened while another was open stands before that other one.
C20_TaskConservation ==
    LET starts == {i \in 1..Len(log) : LineKind[log[i]] = "start"}
        dones == {i \in 1..Len(log) : LineKind[log[i]] = "done"}
    IN  pc \in {"reading", "query"} =>
           /\ Len(active_tasks) + Len(all_tasks) = Cardinality(starts)
           /\ Len(all_tasks) = Cardinality(dones)
           /\ \A i, j \in 1..Len(all_tasks) :
                 i < j => all_tasks[i].done_id < all_tasks[j].done_id
           /\ \A i, j \in 1..Len(all_tasks) :
                 (/\ all_tasks[j].id < all_tasks[i].id
                  /\ all_tasks[i].id < all_tasks[j].done_id) => i < j

\* an unbalanced prefix: three tasks opened, the innermost closed, two open
C20_Witness ==
    /\ pc = "reading"
    /\ Len(log) = 4
    /\ Len(active_tasks) = 2
    /\ Len(all_tasks) = 1
    /\ all_tasks[1].id = 3
    /\ all_tasks[1].done_id = 4
====
